---------------------------- MODULE Spec2Model ----------------------------
(***************************************************************************)
(* A model of torn_open/api_spec_plugin.py: the apispec plugin that turns   *)
(* tornado routes and annotated handlers into OpenAPI paths, operations,    *)
(* parameters and component schemas.                                        *)
(*                                                                          *)
(* Python values are tagged records: t names the type, and one more field, *)
(* named after the type, holds the payload.  So dicts with values of        *)
(* several types, truthiness (`if v`) and structural equality (`==`) can    *)
(* be computed as the code computes them.  An exception is the value        *)
(* Raise(<exception name>); it propagates through every caller.             *)
(***************************************************************************)
EXTENDS Integers, Sequences, FiniteSets, TLC

VARIABLES
    schemas,        \* components.schemas of the current spec object: id -> schema
    raised,         \* exception raised by the last call, or "none"
    call,           \* the last call and what it saw (history)
    schema_cache,   \* response/request model -> the dict its .schema() returns
    paths,          \* spec._paths of the current pass: route -> path item
    pass,           \* number of the current generation pass
    prev,           \* paths and schemas of the previous pass, when it completed
    parameter,      \* the inspect.Parameter under translation
    descriptor,     \* what PathParameter / QueryParameter returned for it
    url_spec,       \* the route under translation
    path            \* what get_path returned for it

vars == <<schemas, raised, call, schema_cache, paths, pass, prev,
          parameter, descriptor, url_spec, path>>

-----------------------------------------------------------------------------
(* Python values *)

PyNone == [t |-> "None"]
PyStr(s) == [t |-> "str", s |-> s]
PyInt(n) == [t |-> "int", i |-> n]
PyBool(b) == [t |-> "bool", b |-> b]
PyList(s) == [t |-> "list", l |-> s]
PyDict(f) == [t |-> "dict", d |-> f]
\* a str given by the sequence of its characters
PyChars(s) == [t |-> "chars", c |-> s]
\* a member of an Enum class: cls is the class name, mixin the data type the
\* class mixes in ("" for a plain Enum, "int" for an IntEnum), val its value
PyEnum(cls, mixin, val) == [t |-> "enum", e |-> <<cls, mixin, val>>]
\* inspect.Parameter.empty, the "no default" marker
PyEmpty == [t |-> "_empty"]
Raise(e) == [t |-> "raise", x |-> e]

IsRaise(x) == x.t = "raise"
EmptyDict == PyDict(<<>>)

\* bool(x), as `if v` and `a and b` evaluate it
RECURSIVE Truthy(_)
Truthy(x) ==
    CASE x.t = "None" -> FALSE
      [] x.t = "str" -> x.s # ""
      [] x.t = "int" -> x.i # 0
      [] x.t = "bool" -> x.b
      [] x.t = "list" -> Len(x.l) > 0
      [] x.t = "dict" -> DOMAIN x.d # {}
      [] x.t = "enum" -> IF x.e[2] = "" THEN TRUE ELSE Truthy(x.e[3])
      [] OTHER -> TRUE

\* dict.get(k) with the default None
Get(dict, k) == IF k \in DOMAIN dict.d THEN dict.d[k] ELSE PyNone

_clear_none_from_dict(dictionary) ==
    PyDict([k \in {j \in DOMAIN dictionary.d : Truthy(dictionary.d[j])}
              |-> dictionary.d[k]])

-----------------------------------------------------------------------------
(* Component registry *)

NoRaise == "none"

\* apispec.core.Components.schema, the base method line 19 delegates to: it
\* refuses a name that is already registered, and otherwise stores a copy.
Components_schema(reg, component_id, component) ==
    IF component_id \in DOMAIN reg
    THEN [schemas |-> reg, raised |-> "DuplicateComponentNameError"]
    ELSE [schemas |-> (component_id :> (IF Truthy(component) THEN component
                                         ELSE EmptyDict)) @@ reg,
          raised |-> NoRaise]

RegistryGet(reg, component_id) ==
    IF component_id \in DOMAIN reg THEN reg[component_id] ELSE PyNone

TornOpenComponents_schema_no_check(reg, component_id, component) ==
    Components_schema(reg, component_id, component)

TornOpenComponents_schema_never_delegates(reg, component_id, component) ==
    IF component_id \in DOMAIN reg
    THEN [schemas |-> reg, raised |-> NoRaise]
    ELSE Components_schema(reg, component_id, component)

TornOpenComponents_schema(reg, component_id, component) ==
    IF RegistryGet(reg, component_id) = component
    THEN [schemas |-> reg, raised |-> NoRaise]
    ELSE Components_schema(reg, component_id, component)


-----------------------------------------------------------------------------
(* Type annotations *)

\* A type annotation is a record: k is what kind of object it is, n its name
\* (for a generic alias, the name of its __origin__), args its __args__.
\*   "class"   an ordinary class; no __args__
\*   "enum"    a class whose metaclass is EnumMeta; no __args__
\*   "alias"   a parameterised generic (List[str], Optional[int], Dict[..]):
\*             has __origin__ and __args__
\*   "special" the bare typing.List: has __origin__, but no __args__
\*   "object"  a value that is no type at all (None); no __args__
Cls(n) == [k |-> "class", n |-> n, args |-> <<>>]
EnumCls(n) == [k |-> "enum", n |-> n, args |-> <<>>]
Alias(origin, args) == [k |-> "alias", n |-> origin, args |-> args]
TypingList == [k |-> "special", n |-> "list", args |-> <<>>]
NoneObject == [k |-> "object", n |-> "None", args |-> <<>>]
NoneType == Cls("NoneType")

ListOf(T) == Alias("list", <<T>>)
OptionalOf(T) == Alias("Union", <<T, NoneType>>)

\* hasattr(annotation, "__args__")
HasArgs(annotation) == annotation.k = "alias"
isinstance_type(annotation) == annotation.k \in {"class", "enum"}
isinstance_EnumMeta(annotation) == annotation.k = "enum"

\* The members of each Enum class of the fixtures, in declaration order:
\* Color is a plain Enum of strings, Level an IntEnum that has a 0, Mode a
\* str-mixin Enum that has an empty string, Empty an Enum with no members.
EnumMixin(cls) ==
    CASE cls = "Level" -> "int"
      [] cls = "Mode" -> "str"
      [] OTHER -> ""

EnumValues(cls) ==
    CASE cls = "Color" -> <<PyStr("red"), PyStr("blue")>>
      [] cls = "Level" -> <<PyInt(0), PyInt(1)>>
      [] cls = "Mode" -> <<PyStr(""), PyStr("fast")>>
      [] OTHER -> <<>>

Member(cls, i) == PyEnum(cls, EnumMixin(cls), EnumValues(cls)[i])

\* torn_open.types.is_optional: the annotation is Optional[...]
is_optional(annotation) ==
    /\ annotation.k = "alias"
    /\ annotation.n = "Union"
    /\ \E i \in 1..Len(annotation.args) : annotation.args[i] = NoneType

\* torn_open.types.is_list: the annotation is a generic list
is_list(annotation) ==
    /\ annotation.k \in {"alias", "special"}
    /\ annotation.n = "list"

_unpack_enum(enum_meta) == EnumValues(enum_meta.n)

\* type(x) of a str or int value
TypeOf(x) == Cls(x.t)

_get_type_of_enum_value(enum_meta) ==
    IF Len(_unpack_enum(enum_meta)) = 0
    THEN NoneObject
    ELSE TypeOf(_unpack_enum(enum_meta)[1])

types_mapping ==
    (Cls("str") :> "string") @@ (Cls("int") :> "integer")
      @@ (Cls("float") :> "number") @@ (Cls("list") :> "array")
      @@ (TypingList :> "array")

RECURSIVE _get_type(_)
_get_type(annotation) ==
    IF annotation \in DOMAIN types_mapping
    THEN PyStr(types_mapping[annotation])
    ELSE IF is_optional(annotation)
    THEN _get_type(annotation.args[1])
    ELSE IF isinstance_EnumMeta(annotation)
    THEN _get_type(_get_type_of_enum_value(annotation))
    ELSE IF is_list(annotation)
    THEN _get_type(Cls(annotation.n))
    ELSE IF ~isinstance_type(annotation)
    THEN IF ~HasArgs(annotation)
         THEN Raise("AttributeError")
         \* is_optional(annotation.__args__): a tuple is never Optional[...]
         ELSE PyNone
    ELSE PyNone

_get_item_type(annotation) ==
    IF ~HasArgs(annotation)
    THEN Raise("AttributeError")
    ELSE IF Len(annotation.args) = 1
    THEN _get_type(annotation.args[1])
    ELSE IF is_optional(annotation)
    THEN IF ~HasArgs(annotation.args[1])
         THEN Raise("AttributeError")
         ELSE _get_type(annotation.args[1].args[1])
    ELSE PyNone

Items(annotation) ==
    LET outer == _get_type(annotation) IN
    IF IsRaise(outer) THEN outer
    ELSE IF outer # PyStr("array") THEN PyNone
    ELSE LET item_type == _get_item_type(annotation) IN
         IF IsRaise(item_type) THEN item_type
         ELSE PyDict("type" :> item_type)

-----------------------------------------------------------------------------
(* Parameters *)

\* an inspect.Parameter
Param(name, annotation, default) ==
    [name |-> name, annotation |-> annotation, default |-> default]

_get_default_value_of_parameter(p) ==
    LET default == IF p.default # PyEmpty THEN p.default ELSE PyNone IN
    IF Truthy(default) /\ isinstance_EnumMeta(p.annotation)
    THEN IF default.t = "enum" THEN default.e[3] ELSE Raise("AttributeError")
    ELSE default

Schema(p) ==
    LET _type == _get_type(p.annotation)
        _enum == IF isinstance_EnumMeta(p.annotation)
                 THEN PyList(_unpack_enum(p.annotation))
                 ELSE PyNone
        default == _get_default_value_of_parameter(p)
        items == Items(p.annotation)
    IN  IF IsRaise(_type) THEN _type
        ELSE IF IsRaise(default) THEN default
        ELSE IF IsRaise(items) THEN items
        ELSE _clear_none_from_dict(
                 PyDict("type" :> _type @@ "enum" :> _enum
                          @@ "default" :> default @@ "items" :> items))

Parameter_required_from_annotation(p, param_type, required) ==
    LET schema == Schema(p) IN
    IF IsRaise(schema) THEN schema
    ELSE PyDict("name" :> PyStr(p.name) @@ "in" :> PyStr(param_type)
                  @@ "required" :> PyBool(~is_optional(p.annotation))
                  @@ "schema" :> schema)

Parameter(p, param_type, required) ==
    LET schema == Schema(p) IN
    IF IsRaise(schema) THEN schema
    ELSE PyDict("name" :> PyStr(p.name) @@ "in" :> PyStr(param_type)
                  @@ "required" :> (IF required # PyNone THEN required
                                    ELSE PyBool(~is_optional(p.annotation)))
                  @@ "schema" :> schema)

PathParameter(p) == Parameter(p, "path", PyBool(TRUE))

QueryParameter(p) == Parameter(p, "query", PyNone)

-----------------------------------------------------------------------------
(* Path translation *)

\* A string is the sequence of its characters.  A url_spec carries the
\* matcher's reverse template (matcher._path), the pattern's named groups
\* with their capture indices (regex.groupindex) and its number of groups
\* (regex.groups).

\* sorted(path_params.items(), key=lambda item: item[1]): the names, by index
RECURSIVE SortedByIndex(_)
SortedByIndex(groupindex) ==
    IF DOMAIN groupindex = {} THEN <<>>
    ELSE LET first == CHOOSE k \in DOMAIN groupindex :
                          \A j \in DOMAIN groupindex : groupindex[k] <= groupindex[j]
         IN  <<first>> \o SortedByIndex([k \in DOMAIN groupindex \ {first}
                                            |-> groupindex[k]])

\* f"{{{param}}}"
Placeholder(param) == <<"{", param, "}">>

extract_and_sort_path_path_params(u) ==
    [i \in 1..Len(SortedByIndex(u.groupindex))
       |-> Placeholder(SortedByIndex(u.groupindex)[i])]

\* format % args, for a tuple args of strings: "%s" takes the next argument,
\* "%%" is a literal "%", any other conversion fails; so does an argument
\* that is left over.
RECURSIVE PercentFormat(_, _, _, _)
PercentFormat(format, i, args, k) ==
    IF i > Len(format)
    THEN IF k <= Len(args) THEN Raise("TypeError") ELSE PyChars(<<>>)
    ELSE IF format[i] # "%"
    THEN LET rest == PercentFormat(format, i + 1, args, k) IN
         IF IsRaise(rest) THEN rest ELSE PyChars(<<format[i]>> \o rest.c)
    ELSE IF i = Len(format)
    THEN Raise("ValueError")
    ELSE IF format[i + 1] = "%"
    THEN LET rest == PercentFormat(format, i + 2, args, k) IN
         IF IsRaise(rest) THEN rest ELSE PyChars(<<"%">> \o rest.c)
    ELSE IF k > Len(args)
    THEN Raise("TypeError")
    ELSE IF format[i + 1] = "s"
    THEN LET rest == PercentFormat(format, i + 2, args, k + 1) IN
         IF IsRaise(rest) THEN rest ELSE PyChars(args[k] \o rest.c)
    ELSE IF format[i + 1] \in {"*", "x"}
    THEN Raise("TypeError")
    ELSE Raise("ValueError")

replace_path_with_openapi_placeholders(u) ==
    IF u.groups = 0
    THEN PyChars(u.path)
    ELSE PercentFormat(u.path, 1, extract_and_sort_path_path_params(u), 1)

\* path.rstrip("/*")
RECURSIVE right_strip_path(_)
right_strip_path(p) ==
    IF Len(p) > 0 /\ p[Len(p)] \in {"/", "*"}
    THEN right_strip_path(SubSeq(p, 1, Len(p) - 1))
    ELSE p

get_path(u) ==
    LET p == replace_path_with_openapi_placeholders(u) IN
    IF IsRaise(p) THEN p ELSE PyChars(right_strip_path(p.c))

-----------------------------------------------------------------------------
(* Fixtures: schema contents *)

Prop(type) == PyDict("type" :> PyStr(type))

ObjectSchema(title, properties) ==
    "title" :> PyStr(title) @@ "type" :> PyStr("object")
      @@ "properties" :> PyDict(properties)

ItemA == PyDict(ObjectSchema("Item", "name" :> Prop("string")))
ItemB == PyDict(ObjectSchema("Item", "sku" :> Prop("integer")))
TagA == PyDict(ObjectSchema("Tag", "label" :> Prop("string")))

ComponentIds == {"Item", "Tag", "Other"}
ComponentBodies == {ItemA, ItemB, TagA}

-----------------------------------------------------------------------------
(* The states each specification leaves alone *)

Idle == [op |-> "init"]

RegistryIdle ==
    /\ schemas = <<>>
    /\ raised = NoRaise
GenerationIdle ==
    /\ schema_cache = <<>>
    /\ paths = <<>>
    /\ pass = 0
    /\ prev = Idle
ParameterIdle ==
    /\ parameter = PyNone
    /\ descriptor = PyNone
PathIdle ==
    /\ url_spec = PyNone
    /\ path = PyNone

genVars == <<schema_cache, paths, pass, prev>>
paramVars == <<parameter, descriptor>>
pathVars == <<url_spec, path>>

-----------------------------------------------------------------------------
(* Specification SpecRegistry: calls of components.schema(id, component) *)

InitRegistry ==
    /\ RegistryIdle /\ GenerationIdle /\ ParameterIdle /\ PathIdle
    /\ call = Idle

CallSchema(component_id, component) ==
    LET r == TornOpenComponents_schema(schemas, component_id, component) IN
    /\ schemas' = r.schemas
    /\ raised' = r.raised
    /\ call' = [op |-> "schema", component_id |-> component_id,
                component |-> component, before |-> schemas]
    /\ UNCHANGED <<genVars, paramVars, pathVars>>

NextRegistry ==
    \E component_id \in ComponentIds, component \in ComponentBodies :
        CallSchema(component_id, component)

SpecRegistry == InitRegistry /\ [][NextRegistry]_vars

-----------------------------------------------------------------------------
(* Specification SpecParam: a parameter, and its descriptor *)

Annotations ==
    {Cls("str"), Cls("int"), Cls("float"), Cls("bool"), Cls("list"),
     TypingList, Cls("Unknown"), Cls("_empty"),
     EnumCls("Color"), EnumCls("Level"), EnumCls("Mode"), EnumCls("Empty"),
     ListOf(Cls("str")), ListOf(Cls("int")), ListOf(Cls("Unknown")),
     ListOf(OptionalOf(Cls("int"))), ListOf(EnumCls("Color")),
     OptionalOf(Cls("int")), OptionalOf(Cls("str")), OptionalOf(Cls("list")),
     OptionalOf(Cls("Unknown")), OptionalOf(EnumCls("Color")),
     OptionalOf(ListOf(Cls("str"))), OptionalOf(ListOf(Cls("Unknown"))),
     OptionalOf(TypingList),
     Alias("dict", <<Cls("str"), Cls("int")>>),
     Alias("Union", <<Cls("int"), Cls("str")>>),
     Alias("tuple", <<Cls("int"), Cls("str")>>)}

Defaults ==
    {PyEmpty, PyNone, PyInt(5), PyInt(0), PyBool(TRUE), PyBool(FALSE),
     PyStr("x"), PyStr(""), PyList(<<>>),
     Member("Color", 1), Member("Level", 1), Member("Level", 2),
     Member("Mode", 1), Member("Mode", 2)}

ParamNames == {"p"}

InitParam ==
    /\ RegistryIdle /\ GenerationIdle /\ PathIdle
    /\ call = Idle
    /\ descriptor = PyNone
    /\ \E name \in ParamNames, annotation \in Annotations, default \in Defaults :
           parameter = Param(name, annotation, default)

CallPathParameter ==
    /\ descriptor' = PathParameter(parameter)
    /\ call' = [op |-> "PathParameter"]
    /\ UNCHANGED <<schemas, raised, genVars, parameter, pathVars>>

CallQueryParameter ==
    /\ descriptor' = QueryParameter(parameter)
    /\ call' = [op |-> "QueryParameter"]
    /\ UNCHANGED <<schemas, raised, genVars, parameter, pathVars>>

NextParam == CallPathParameter \/ CallQueryParameter

SpecParam == InitParam /\ [][NextParam]_vars

-----------------------------------------------------------------------------
(* Specification SpecPath: a route, and its OpenAPI path *)

MaxPathLen == 4
MaxGroups == 2

PathChars == {"/", "*", "x", "%", "s"}
GroupNames == {"a", "b"}

RawPaths == UNION {[1..n -> PathChars] : n \in 0..MaxPathLen}

\* regex.groupindex and regex.groups of a pattern tornado accepts: its groups
\* are all named or all positional, and capture indices count from 1.
GroupIndexes ==
    UNION {{g \in [names -> 1..Cardinality(names)] :
               \A j, k \in names : j # k => g[j] # g[k]} :
           names \in SUBSET GroupNames}

UrlSpecs ==
    {[path |-> p, groupindex |-> g, groups |-> n] :
        p \in RawPaths, g \in GroupIndexes, n \in 0..MaxGroups}

\* the conversions of a template, as % reads it from left to right: "%%" is
\* none
RECURSIVE Conversions(_, _)
Conversions(format, i) ==
    IF i > Len(format) THEN 0
    ELSE IF format[i] # "%" THEN Conversions(format, i + 1)
    ELSE IF i = Len(format) THEN 1
    ELSE IF format[i + 1] = "%" THEN Conversions(format, i + 2)
    ELSE 1 + Conversions(format, i + 2)

\* tornado's matcher puts one "%s" into the template for each group
Routable(u) ==
    /\ Cardinality(DOMAIN u.groupindex) \in {0, u.groups}
    /\ Conversions(u.path, 1) >= u.groups

InitPath ==
    /\ RegistryIdle /\ GenerationIdle /\ ParameterIdle
    /\ call = Idle
    /\ path = PyNone
    /\ url_spec \in {u \in UrlSpecs : Routable(u)}

CallGetPath ==
    /\ path' = get_path(url_spec)
    /\ call' = [op |-> "get_path"]
    /\ UNCHANGED <<schemas, raised, genVars, paramVars, url_spec>>

NextPath == CallGetPath

SpecPath == InitPath /\ [][NextPath]_vars

-----------------------------------------------------------------------------
(* Fixtures: response and request models, handlers, routes *)

\* SCHEMA_REF_TEMPLATE.format(model=...)
SCHEMA_REF_TEMPLATE(model) ==
    CASE model = "Item" -> "#/components/schemas/Item"
      [] model = "Tag" -> "#/components/schemas/Tag"
      [] OTHER -> "#/components/schemas/"

RefTo(model) == PyDict("$ref" :> PyStr(SCHEMA_REF_TEMPLATE(model)))

NoModel == "None"
ModelNames == {"Plain", "Order", "Cart", "Invoice"}

\* What the schema library renders for each model the first time it is
\* asked.  Order and Cart nest the same Item; Invoice nests another class
\* that is also named Item.
model_schema(model) ==
    CASE model = "Order" ->
           PyDict(ObjectSchema("Order", "item" :> RefTo("Item"))
                    @@ "definitions" :> PyDict("Item" :> ItemA))
      [] model = "Cart" ->
           PyDict(ObjectSchema("Cart", "item" :> RefTo("Item") @@ "tag" :> RefTo("Tag"))
                    @@ "definitions" :> PyDict("Item" :> ItemA @@ "Tag" :> TagA))
      [] model = "Invoice" ->
           PyDict(ObjectSchema("Invoice", "item" :> RefTo("Item") @@ "tag" :> RefTo("Tag"))
                    @@ "definitions" :> PyDict("Tag" :> TagA @@ "Item" :> ItemB))
      [] OTHER ->
           PyDict(ObjectSchema("Plain", "ok" :> Prop("string")))

\* the model class's __doc__
model_doc(model) ==
    CASE model = "Order" -> PyStr("  An order.  ")
      [] OTHER -> PyNone

\* str.strip() of the docstrings of the fixtures
strip(text) ==
    CASE text = "  An order.  " -> "An order."
      [] text = " Get it. " -> "Get it."
      [] text = "   " -> ""
      [] text = "\n    Include a torn_open.models.ResponseModel annotation ...\n    "
           -> "Include a torn_open.models.ResponseModel annotation ..."
      [] OTHER -> text

\* dicts iterate in insertion order; the fixtures insert in this order
KeyOrder == <<"Tag", "Item", "Other">>
KeysInOrder(dict) == SelectSeq(KeyOrder, LAMBDA k : k \in DOMAIN dict.d)

SUPPORTED_METHODS == <<"GET", "HEAD", "POST", "DELETE", "PATCH", "PUT", "OPTIONS">>

\* str.lower() of a method name
lower(method) ==
    CASE method = "GET" -> "get"
      [] method = "HEAD" -> "head"
      [] method = "POST" -> "post"
      [] method = "DELETE" -> "delete"
      [] method = "PATCH" -> "patch"
      [] method = "PUT" -> "put"
      [] method = "OPTIONS" -> "options"
      [] OTHER -> method

Verbs == {lower(SUPPORTED_METHODS[i]) : i \in 1..Len(SUPPORTED_METHODS)}

\* handler._unimplemented_method, and a method the handler defines
Stub == [stub |-> TRUE, doc |-> PyNone, tags |-> PyNone, summary |-> PyNone]
Method(doc, tags, summary) ==
    [stub |-> FALSE, doc |-> doc, tags |-> tags, summary |-> summary]

AllStubs == [v \in Verbs |-> Stub]
NoParams == [v \in Verbs |-> <<>>]
NoModels == [v \in Verbs |-> NoModel]

\* The handler classes: the attribute of each verb, and the tables an
\* annotated handler carries (path_params, and per verb query_params,
\* json_param, response_models).
HandlerNames == {"ItemHandler", "CartHandler", "PingHandler",
                 "InvoiceHandler", "BareHandler", "ListHandler"}

handler_class(name) ==
    CASE name = "ItemHandler" ->
           [attrs |-> [AllStubs EXCEPT !["get"] =
                          Method(PyStr(" Get it. "), PyList(<<PyStr("items")>>),
                                 PyStr("Get an item"))],
            path_params |-> <<Param("id", Cls("int"), PyEmpty)>>,
            query_params |-> [NoParams EXCEPT !["get"] =
                          <<Param("limit", OptionalOf(Cls("int")), PyInt(5)),
                            Param("tags", ListOf(Cls("str")), PyEmpty)>>],
            json_param |-> NoModels,
            response_models |-> [NoModels EXCEPT !["get"] = "Order"]]
      [] name = "CartHandler" ->
           [attrs |-> [AllStubs EXCEPT
                          !["get"] = Method(PyStr("   "), PyNone, PyNone),
                          !["post"] = Method(PyNone, PyList(<<>>), PyStr(""))],
            path_params |-> <<Param("cart", Cls("str"), PyEmpty),
                              Param("item", OptionalOf(Cls("int")), PyEmpty)>>,
            query_params |-> [NoParams EXCEPT !["get"] =
                          <<Param("q", Cls("Unknown"), PyEmpty)>>],
            json_param |-> [NoModels EXCEPT !["post"] = "Cart"],
            response_models |-> [NoModels EXCEPT !["get"] = "Order",
                                                 !["post"] = "Cart"]]
      [] name = "PingHandler" ->
           [attrs |-> [AllStubs EXCEPT !["get"] = Method(PyNone, PyNone, PyNone)],
            path_params |-> <<>>,
            query_params |-> NoParams,
            json_param |-> NoModels,
            response_models |-> NoModels]
      [] name = "InvoiceHandler" ->
           [attrs |-> [AllStubs EXCEPT
                          !["post"] = Method(PyNone, PyNone, PyNone),
                          !["delete"] = Method(PyNone, PyNone, PyNone)],
            path_params |-> <<>>,
            query_params |-> [NoParams EXCEPT !["delete"] =
                          <<Param("level", EnumCls("Level"), Member("Level", 1))>>],
            json_param |-> [NoModels EXCEPT !["post"] = "Order"],
            response_models |-> [NoModels EXCEPT !["post"] = "Invoice",
                                                 !["delete"] = "Plain"]]
      [] name = "ListHandler" ->
           [attrs |-> [AllStubs EXCEPT !["get"] = Method(PyNone, PyNone, PyNone)],
            path_params |-> <<>>,
            query_params |-> [NoParams EXCEPT !["get"] =
                          <<Param("ids", Cls("list"), PyEmpty)>>],
            json_param |-> NoModels,
            response_models |-> [NoModels EXCEPT !["get"] = "Cart"]]
      [] OTHER ->
           [attrs |-> AllStubs,
            path_params |-> <<>>,
            query_params |-> NoParams,
            json_param |-> NoModels,
            response_models |-> NoModels]

\* The route table: each url_spec with its reverse template, named groups,
\* number of groups and handler class.
Route(p, groupindex, handler) ==
    [path |-> p, groupindex |-> groupindex,
     groups |-> Cardinality(DOMAIN groupindex), handler_class |-> handler]

RouteTable ==
    <<Route(<<"/", "items", "/", "%", "s">>, "id" :> 1, "ItemHandler"),
      Route(<<"/", "carts", "/", "%", "s", "/", "%", "s", "/">>,
            "item" :> 2 @@ "cart" :> 1, "CartHandler"),
      Route(<<"/", "ping", "/", "*">>, <<>>, "PingHandler"),
      Route(<<"/", "invoices">>, <<>>, "InvoiceHandler"),
      Route(<<"/", "bare">>, <<>>, "BareHandler"),
      Route(<<"/", "list">>, <<>>, "ListHandler")>>

Routes == 1..Len(RouteTable)

-----------------------------------------------------------------------------
(* Operation builder *)

\* The dict a model's .schema() returns is one object, kept by the model
\* class and handed out again on every later call.  ModelRef(m) stands for
\* that object wherever the code stores it; Resolve reads through it.
ModelRef(model) == [t |-> "ref", m |-> model]

RECURSIVE Resolve(_, _)
Resolve(x, cache) ==
    CASE x.t = "ref" -> cache[x.m]
      [] x.t = "dict" -> PyDict([k \in DOMAIN x.d |-> Resolve(x.d[k], cache)])
      [] x.t = "list" -> PyList([i \in DOMAIN x.l |-> Resolve(x.l[i], cache)])
      [] OTHER -> x

\* response_model.schema(ref_template=SCHEMA_REF_TEMPLATE): rendered once,
\* then served from the class's cache
schema_call(cache, model) ==
    IF model \in DOMAIN cache THEN cache ELSE (model :> model_schema(model)) @@ cache

\* getattr(handler, name, None)
getattr(handler, name) ==
    IF name \in DOMAIN handler.attrs THEN handler.attrs[name] ELSE Stub

_is_implemented_always(method, handler) == TRUE

_is_implemented(method, handler) == ~getattr(handler, method).stub

_get_implemented_http_methods(u) ==
    LET handler == handler_class(u.handler_class)
        lowered == [i \in 1..Len(SUPPORTED_METHODS) |-> lower(SUPPORTED_METHODS[i])]
    IN  SelectSeq(lowered, LAMBDA method : _is_implemented(method, handler))

_get_tags(method, u) ==
    LET handler == handler_class(u.handler_class) IN
    IF getattr(handler, method).stub THEN PyNone ELSE getattr(handler, method).tags

_get_summary(method, u) ==
    LET handler == handler_class(u.handler_class) IN
    IF getattr(handler, method).stub THEN PyNone ELSE getattr(handler, method).summary

_get_operation_description(method, u) ==
    LET description == getattr(handler_class(u.handler_class), method).doc IN
    IF Truthy(description) THEN PyStr(strip(description.s)) ELSE description

\* the first exception of a list of results, or the list
ListOrRaise(results) ==
    IF \E i \in 1..Len(results) : IsRaise(results[i])
    THEN results[CHOOSE i \in 1..Len(results) :
                    /\ IsRaise(results[i])
                    /\ \A j \in 1..(i - 1) : ~IsRaise(results[j])]
    ELSE PyList(results)

_get_query_params(method, u) ==
    LET parameters == handler_class(u.handler_class).query_params[method] IN
    ListOrRaise([i \in 1..Len(parameters) |-> QueryParameter(parameters[i])])

get_path_params(u) ==
    LET path_params == handler_class(u.handler_class).path_params IN
    ListOrRaise([i \in 1..Len(path_params) |-> PathParameter(path_params[i])])

\* RequestBodySchema renders the model; the result holds the rendered object
RequestBody(method, u, cache) ==
    LET json_param == handler_class(u.handler_class).json_param[method] IN
    IF json_param = NoModel
    THEN [val |-> PyNone, cache |-> cache]
    ELSE [val |-> PyDict("content" :> PyDict("application/json" :>
                      PyDict("schema" :> ModelRef(json_param)))),
          cache |-> schema_call(cache, json_param)]

TEMPLATE_RESPONSE_DESCRIPTION ==
    "\n    Include a torn_open.models.ResponseModel annotation ...\n    "

get_success_response_description(response_model) ==
    IF response_model # NoModel /\ Truthy(model_doc(response_model))
    THEN PyStr(strip(model_doc(response_model).s))
    ELSE PyStr(strip(TEMPLATE_RESPONSE_DESCRIPTION))

\* dict without key k, as pop(k, default) leaves it
Without(dict, k) == PyDict([j \in DOMAIN dict.d \ {k} |-> dict.d[j]])

\* The one element of a singleton.  Only({e(x) : x \in {v}}) is e(v), with v
\* computed once.
Only(S) == CHOOSE x \in S : TRUE

\* the loop of lines 326-327: stops at the first call that raises
RECURSIVE RegisterAll(_, _, _)
RegisterAll(reg, referenced_schemas, ids) ==
    IF Len(ids) = 0
    THEN [schemas |-> reg, raised |-> NoRaise]
    ELSE Only({IF r.raised # NoRaise THEN r
               ELSE RegisterAll(r.schemas, referenced_schemas, Tail(ids)) :
               r \in {TornOpenComponents_schema(reg, Head(ids),
                                                referenced_schemas.d[Head(ids)])}})

SuccessResponseModelSchema_keeps_definitions(response_model, reg, cache) ==
    IF response_model = NoModel
    THEN [val |-> PyNone, schemas |-> reg, cache |-> cache, rendered |-> PyNone]
    ELSE [val |-> ModelRef(response_model), schemas |-> reg,
          cache |-> schema_call(cache, response_model),
          rendered |-> schema_call(cache, response_model)[response_model]]

\* Returns the schema (val), the registry and the model cache as the call
\* leaves them, and the dict the model rendered when asked (rendered).
SuccessResponseModelSchema(response_model, reg, cache) ==
    IF response_model = NoModel
    THEN [val |-> PyNone, schemas |-> reg, cache |-> cache, rendered |-> PyNone]
    ELSE Only({
        LET schema == cache1[response_model]
            referenced_schemas ==
                IF "definitions" \in DOMAIN schema.d
                THEN schema.d["definitions"] ELSE EmptyDict
            cache2 == [cache1 EXCEPT ![response_model] = Without(schema, "definitions")]
        IN  IF ~Truthy(schema)
            THEN [val |-> ModelRef(response_model), schemas |-> reg,
                  cache |-> cache1, rendered |-> schema]
            ELSE IF ~Truthy(referenced_schemas)
            THEN [val |-> ModelRef(response_model), schemas |-> reg,
                  cache |-> cache2, rendered |-> schema]
            ELSE Only({[val |-> IF r.raised # NoRaise THEN Raise(r.raised)
                                ELSE ModelRef(response_model),
                        schemas |-> r.schemas, cache |-> cache2, rendered |-> schema] :
                       r \in {RegisterAll(reg, referenced_schemas,
                                          KeysInOrder(referenced_schemas))}}) :
        cache1 \in {schema_call(cache, response_model)}})

SuccessResponse(method, u, reg, cache) ==
    LET response_model == handler_class(u.handler_class).response_models[method] IN
    Only({[s EXCEPT !.val =
              IF IsRaise(s.val) THEN s.val
              ELSE PyDict("description" :> get_success_response_description(response_model)
                            @@ "content" :> PyDict("application/json" :>
                                   PyDict("schema" :> s.val)))] :
          s \in {SuccessResponseModelSchema(response_model, reg, cache)}})

Responses(method, u, reg, cache) ==
    Only({[s EXCEPT !.val = IF IsRaise(s.val) THEN s.val ELSE PyDict("200" :> s.val)] :
          s \in {SuccessResponse(method, u, reg, cache)}})

\* The dict literal of lines 206-213 is evaluated top to bottom: an
\* exception in one entry leaves the later entries unevaluated.
Operation(method, u, reg, cache) ==
    Only({
        IF IsRaise(parameters)
        THEN [val |-> parameters, schemas |-> reg, cache |-> cache, rendered |-> PyNone]
        ELSE Only({
            Only({[resp EXCEPT !.val =
                      IF IsRaise(resp.val) THEN resp.val
                      ELSE _clear_none_from_dict(
                               PyDict("tags" :> _get_tags(method, u)
                                        @@ "summary" :> _get_summary(method, u)
                                        @@ "parameters" :> parameters
                                        @@ "description" :>
                                               _get_operation_description(method, u)
                                        @@ "requestBody" :> body.val
                                        @@ "responses" :> resp.val))] :
                  resp \in {Responses(method, u, reg, body.cache)}}) :
            body \in {RequestBody(method, u, cache)}}) :
        parameters \in {_get_query_params(method, u)}})

\* The comprehension of lines 198-201 over the methods still to build: val is
\* the mapping, rendered what the response model of each verb rendered.
RECURSIVE OperationsFrom(_, _, _, _)
OperationsFrom(methods, u, reg, cache) ==
    IF Len(methods) = 0
    THEN [val |-> EmptyDict, schemas |-> reg, cache |-> cache, rendered |-> <<>>]
    ELSE Only({
        IF IsRaise(op.val)
        THEN [op EXCEPT !.rendered = <<>>]
        ELSE Only({
            IF IsRaise(rest.val)
            THEN rest
            ELSE [val |-> PyDict((Head(methods) :> op.val) @@ rest.val.d),
                  schemas |-> rest.schemas, cache |-> rest.cache,
                  rendered |-> (Head(methods) :> op.rendered) @@ rest.rendered] :
            rest \in {OperationsFrom(Tail(methods), u, op.schemas, op.cache)}}) :
        op \in {Operation(Head(methods), u, reg, cache)}})

Operations(u, reg, cache) ==
    OperationsFrom(_get_implemented_http_methods(u), u, reg, cache)

-----------------------------------------------------------------------------
(* Specification Spec: generation passes over the route table *)

MaxPass == 2

\* TornOpenPlugin.path_helper: the path, and the path parameters appended to
\* the (empty) parameter list of the call
path_helper(u) ==
    LET p == get_path(u)
        parameters == get_path_params(u)
    IN  IF IsRaise(p) THEN [path |-> p, parameters |-> PyList(<<>>)]
        ELSE IF IsRaise(parameters) THEN [path |-> parameters, parameters |-> PyList(<<>>)]
        ELSE [path |-> p, parameters |-> parameters]

\* TornOpenPlugin.operation_helper: operations.update(**Operations(...)) on
\* the empty mapping of the call
operation_helper(u, reg, cache) == Operations(u, reg, cache)

\* the key of a route in spec._paths
PathKey(i) == get_path(RouteTable[i]).c

Init ==
    /\ schemas = <<>>
    /\ raised = NoRaise
    /\ call = Idle
    /\ schema_cache = <<>>
    /\ paths = <<>>
    /\ pass = 1
    /\ prev = Idle
    /\ ParameterIdle /\ PathIdle

\* TornOpenAPISpec.__init__: a new spec object, with its own registry; the
\* model classes, and what they have cached, stay.
NewSpec ==
    /\ pass < MaxPass
    /\ pass' = pass + 1
    /\ schemas' = <<>>
    /\ paths' = <<>>
    /\ raised' = NoRaise
    /\ call' = [op |-> "spec"]
    /\ prev' = IF raised = NoRaise
               THEN [op |-> "pass",
                     paths |-> [k \in DOMAIN paths |->
                                  [operations |-> Resolve(paths[k].operations, schema_cache),
                                   parameters |-> paths[k].parameters]],
                     schemas |-> schemas]
               ELSE Idle
    /\ UNCHANGED <<schema_cache, paramVars, pathVars>>

\* spec.path(url_spec=RouteTable[i]): the plugin's path_helper, then its
\* operation_helper, then the path item is kept.  An exception leaves the
\* spec object without the path, and ends the pass.
AddPath(i) ==
    /\ raised = NoRaise
    /\ PathKey(i) \notin DOMAIN paths
    /\ \E ph \in {path_helper(RouteTable[i])} :
          IF IsRaise(ph.path)
          THEN /\ raised' = ph.path.x
               /\ call' = [op |-> "path", route |-> i, rendered |-> <<>>]
               /\ UNCHANGED <<schemas, schema_cache, paths>>
          ELSE \E ops \in {operation_helper(RouteTable[i], schemas, schema_cache)} :
               /\ schemas' = ops.schemas
               /\ schema_cache' = ops.cache
               /\ call' = [op |-> "path", route |-> i, rendered |-> ops.rendered]
               /\ IF IsRaise(ops.val)
                  THEN /\ raised' = ops.val.x
                       /\ UNCHANGED paths
                  ELSE /\ raised' = NoRaise
                       /\ paths' = (ph.path.c :> [operations |-> ops.val,
                                                  parameters |-> ph.parameters])
                                     @@ paths
    /\ UNCHANGED <<pass, prev, paramVars, pathVars>>

Next ==
    \/ NewSpec
    \/ \E i \in Routes : AddPath(i)

Spec == Init /\ [][Next]_vars

-----------------------------------------------------------------------------
(* Component registry: C1, C2, under SpecRegistry *)

\* the last call was schema(id, component) on a registry that held id
SchemaCallOnHeld ==
    /\ call.op = "schema"
    /\ call.component_id \in DOMAIN call.before

\* C1: a call of schema(component_id, component) on a registry that already
\* holds, under component_id, an entry equal to component leaves the registry
\* exactly as it was and raises nothing.
C1_IdempotentRegistration ==
    (SchemaCallOnHeld /\ call.before[call.component_id] = call.component)
        => (schemas = call.before /\ raised = NoRaise)

C1_Witness ==
    /\ SchemaCallOnHeld
    /\ call.before[call.component_id] = call.component
    /\ Cardinality(DOMAIN call.before) >= 2
    /\ schemas = call.before
    /\ raised = NoRaise

\* C2 as stated: a call of schema(component_id, component) on a registry that
\* holds a different entry under component_id raises nothing, and afterwards
\* the entry under component_id is component, every other entry unchanged.
C2_LastWriterWins ==
    (SchemaCallOnHeld /\ call.before[call.component_id] # call.component)
        => /\ raised = NoRaise
           /\ DOMAIN schemas = DOMAIN call.before
           /\ schemas[call.component_id] = call.component
           /\ \A id \in DOMAIN call.before \ {call.component_id} :
                  schemas[id] = call.before[id]

\* C2 as amended: such a call is passed on to the base registry, which
\* refuses the name with DuplicateComponentNameError; the registry is left
\* as it was, the entry under component_id keeping its earlier content.
C2_DuplicateRefused ==
    (SchemaCallOnHeld /\ call.before[call.component_id] # call.component)
        => /\ raised = "DuplicateComponentNameError"
           /\ schemas = call.before

C2_Witness ==
    /\ SchemaCallOnHeld
    /\ call.before[call.component_id] # call.component
    /\ Cardinality(DOMAIN call.before) >= 2
    /\ schemas[call.component_id] = call.before[call.component_id]
    /\ raised = "DuplicateComponentNameError"

-----------------------------------------------------------------------------
(* Generation: C3, C4, C7, C9, under Spec *)

\* what the spec object holds for each path, read through the model objects
ResolvedPaths ==
    [k \in DOMAIN paths |->
        [operations |-> Resolve(paths[k].operations, schema_cache),
         parameters |-> paths[k].parameters]]

\* the schema in the "200" response of an operation
InlineResponseSchema(operation) ==
    operation.d["responses"].d["200"].d["content"].d["application/json"].d["schema"]

\* the last call built the operations of a route, and completed
BuiltRoute ==
    /\ call.op = "path"
    /\ raised = NoRaise

HasDefinitions(rendered) ==
    /\ rendered.t = "dict"
    /\ "definitions" \in DOMAIN rendered.d
    /\ Truthy(rendered.d["definitions"])

\* C3: when the operations of a route have been built, then for every verb
\* whose response model rendered a schema with a non-empty definitions map,
\* the registry holds every entry of that map under its own identifier with
\* that content, and the schema in the "200" response of the verb has no
\* definitions key.
C3_ReferencedSchemasPromoted ==
    BuiltRoute =>
        \A verb \in DOMAIN call.rendered :
            HasDefinitions(call.rendered[verb]) =>
                /\ \A id \in DOMAIN call.rendered[verb].d["definitions"].d :
                       /\ id \in DOMAIN schemas
                       /\ schemas[id] = call.rendered[verb].d["definitions"].d[id]
                /\ "definitions" \notin DOMAIN InlineResponseSchema(
                       ResolvedPaths[PathKey(call.route)].operations.d[verb]).d

C3_Witness ==
    /\ BuiltRoute
    /\ \E verb \in DOMAIN call.rendered :
           /\ HasDefinitions(call.rendered[verb])
           /\ Cardinality(DOMAIN call.rendered[verb].d["definitions"].d) = 2
           /\ DOMAIN call.rendered[verb].d["definitions"].d \subseteq DOMAIN schemas

\* the verbs whose attribute on the handler class is not the stub
ImplementedVerbs(i) ==
    {lower(SUPPORTED_METHODS[k]) : k \in
        {j \in 1..Len(SUPPORTED_METHODS) :
            ~handler_class(RouteTable[i].handler_class)
                 .attrs[lower(SUPPORTED_METHODS[j])].stub}}

\* C4: for every route whose operations were built, the keys of the mapping
\* are exactly the lower-cased SUPPORTED_METHODS whose attribute on the
\* handler class is not the stub.
C4_OnlyImplementedVerbs ==
    \A i \in Routes :
        PathKey(i) \in DOMAIN paths =>
            DOMAIN paths[PathKey(i)].operations.d = ImplementedVerbs(i)

C4_Witness ==
    /\ PathKey(1) \in DOMAIN paths
    /\ DOMAIN paths[PathKey(1)].operations.d = {"get"}
    /\ PathKey(2) \in DOMAIN paths
    /\ DOMAIN paths[PathKey(2)].operations.d = {"get", "post"}
    /\ PathKey(5) \in DOMAIN paths
    /\ DOMAIN paths[PathKey(5)].operations.d = {}

IsEmptyValue(x) == x = PyNone \/ x = EmptyDict \/ x = PyList(<<>>)

\* no key of a dict, at any depth, has the value None, {} or []
RECURSIVE Compact(_)
Compact(x) ==
    CASE x.t = "dict" ->
           \A k \in DOMAIN x.d : ~IsEmptyValue(x.d[k]) /\ Compact(x.d[k])
      [] x.t = "list" -> \A i \in DOMAIN x.l : Compact(x.l[i])
      [] OTHER -> TRUE

\* C7 as stated: every dict that generation produced (operations, with
\* their parameters, request bodies and responses, and the path parameters)
\* has, at any depth, no key whose value is None, {} or [].
C7_CompactionInvariant ==
    \A k \in DOMAIN paths :
        /\ Compact(ResolvedPaths[k].operations)
        /\ Compact(ResolvedPaths[k].parameters)

\* C9 as stated: a pass that has built the same routes as the pass before
\* it, each with its own registry, has the same operations for every route
\* and the same registry contents.
C9_RepeatableGeneration ==
    (prev.op = "pass" /\ raised = NoRaise /\ DOMAIN paths = DOMAIN prev.paths)
        => /\ ResolvedPaths = prev.paths
           /\ schemas = prev.schemas

-----------------------------------------------------------------------------
(* Parameters: C6, C8, C10, under SpecParam *)

\* the annotation is Optional[T] for some T
IsOptionalAnnotation(annotation) ==
    /\ annotation.k = "alias"
    /\ annotation.n = "Union"
    /\ Len(annotation.args) = 2
    /\ annotation.args[2] = NoneType

Emitted == call.op \in {"PathParameter", "QueryParameter"} /\ descriptor.t = "dict"

\* C6: a descriptor emitted for a path parameter has "in" = "path" and
\* "required" = true whatever the annotation; one emitted for a query
\* parameter has "in" = "query", and "required" = false exactly when the
\* annotation is Optional[...], whatever the default.
C6_RequiredFlag ==
    Emitted =>
        /\ call.op = "PathParameter" =>
               /\ descriptor.d["in"] = PyStr("path")
               /\ descriptor.d["required"] = PyBool(TRUE)
        /\ call.op = "QueryParameter" =>
               /\ descriptor.d["in"] = PyStr("query")
               /\ descriptor.d["required"] =
                      PyBool(~IsOptionalAnnotation(parameter.annotation))

C6_Witness ==
    /\ Emitted
    /\ call.op = "QueryParameter"
    /\ parameter.annotation = OptionalOf(Cls("int"))
    /\ parameter.default = PyInt(5)
    /\ descriptor.d["required"] = PyBool(FALSE)
    /\ descriptor.d["in"] = PyStr("query")

\* C8 as stated: the schema of an emitted descriptor has "default" equal to
\* the declared default, or to its underlying value when the annotation is
\* an enumerated type; the key is missing only when no default is declared
\* (a declared None is read here as declaring none).
C8_DefaultValue ==
    Emitted =>
        IF parameter.default \in {PyEmpty, PyNone}
        THEN "default" \notin DOMAIN descriptor.d["schema"].d
        ELSE /\ "default" \in DOMAIN descriptor.d["schema"].d
             /\ descriptor.d["schema"].d["default"] =
                    IF isinstance_EnumMeta(parameter.annotation)
                       /\ parameter.default.t = "enum"
                    THEN parameter.default.e[3]
                    ELSE parameter.default

\* the item type of a schema: the type of its items entry, None without one
ItemTypeOf(schema) ==
    IF "items" \in DOMAIN schema.d THEN Get(schema.d["items"], "type") ELSE PyNone

\* the item type C10 expects for an annotation
ExpectedItemType(annotation) ==
    IF annotation.k = "alias" /\ annotation.n = "list" /\ Len(annotation.args) = 1
    THEN _get_type(annotation.args[1])
    ELSE IF IsOptionalAnnotation(annotation)
            /\ annotation.args[1].k = "alias" /\ annotation.args[1].n = "list"
            /\ Len(annotation.args[1].args) = 1
    THEN _get_type(annotation.args[1].args[1])
    ELSE PyNone

\* C10 as stated: computing the descriptor of a parameter without default
\* never raises; its schema has an items entry only if its type is "array",
\* and then the item type is infer_type(T) for List[T] and for
\* Optional[List[T]], and absent for every other annotation.
C10_ArrayItems ==
    (call.op \in {"PathParameter", "QueryParameter"}
        /\ parameter.default = PyEmpty
        /\ parameter.annotation # EnumCls("Empty"))
        => /\ descriptor.t = "dict"
           /\ "items" \in DOMAIN descriptor.d["schema"].d
                  => Get(descriptor.d["schema"], "type") = PyStr("array")
           /\ Get(descriptor.d["schema"], "type") = PyStr("array")
                  => ItemTypeOf(descriptor.d["schema"])
                         = ExpectedItemType(parameter.annotation)

-----------------------------------------------------------------------------
(* Path translation: C5, under SpecPath *)

\* every "%" of the template begins a "%s" slot or a "%%"
RECURSIVE OnlySlots(_, _)
OnlySlots(format, i) ==
    IF i > Len(format) THEN TRUE
    ELSE IF format[i] # "%" THEN OnlySlots(format, i + 1)
    ELSE /\ i < Len(format)
         /\ format[i + 1] \in {"s", "%"}
         /\ OnlySlots(format, i + 2)

\* the template with its k-th slot replaced by the k-th name in braces, and
\* nothing else changed
RECURSIVE SlotsReplaced(_, _, _, _)
SlotsReplaced(format, i, names, k) ==
    IF i > Len(format) THEN <<>>
    ELSE IF format[i] # "%" THEN <<format[i]>> \o SlotsReplaced(format, i + 1, names, k)
    ELSE IF format[i + 1] = "s"
    THEN Placeholder(names[k]) \o SlotsReplaced(format, i + 2, names, k + 1)
    ELSE <<"%", "%">> \o SlotsReplaced(format, i + 2, names, k)

\* the string without its trailing "/" and "*" characters
WithoutTrailing(p) ==
    LET keep == {n \in 0..Len(p) : \A j \in (n + 1)..Len(p) : p[j] \in {"/", "*"}}
        n == CHOOSE m \in keep : \A j \in keep : m <= j
    IN  SubSeq(p, 1, n)

\* the route has n named groups and its template exactly n slots
SlotsMatchGroups ==
    /\ OnlySlots(url_spec.path, 1)
    /\ Conversions(url_spec.path, 1) = Cardinality(DOMAIN url_spec.groupindex)

\* C5 as stated: for a route with n named groups whose template has exactly
\* n slots, get_path returns the template with the k-th slot replaced by
\* {name} of the group with the k-th smallest capture index, and with the
\* trailing "/" and "*" removed; with n = 0 only that strip changes it.
C5_PathTranslation ==
    (call.op = "get_path" /\ SlotsMatchGroups)
        => path = PyChars(WithoutTrailing(
                      SlotsReplaced(url_spec.path, 1,
                                    SortedByIndex(url_spec.groupindex), 1)))

\* the template has no "%" but those of its "%s" slots
RECURSIVE NoLiteralPercent(_, _)
NoLiteralPercent(format, i) ==
    IF i > Len(format) THEN TRUE
    ELSE IF format[i] # "%" THEN NoLiteralPercent(format, i + 1)
    ELSE /\ i < Len(format)
         /\ format[i + 1] = "s"
         /\ NoLiteralPercent(format, i + 2)

\* What does hold of get_path: the translation of C5, for the templates
\* whose only "%" are those of the slots.
PathTranslationWithoutLiteralPercent ==
    (call.op = "get_path" /\ SlotsMatchGroups /\ NoLiteralPercent(url_spec.path, 1))
        => path = PyChars(WithoutTrailing(
                      SlotsReplaced(url_spec.path, 1,
                                    SortedByIndex(url_spec.groupindex), 1)))

=============================================================================
